---- MODULE Spec2Model ----
(***************************************************************************)
(* A model of the pin-based file cache FileCacheImpl (file_cache_impl.cc,  *)
(* file_cache_impl.h, file_cache.h) and of its test driver (main.cc).      *)
(*                                                                         *)
(* The cache table file_cache_ is a std::map from file name to CacheEntry; *)
(* every public operation runs under the one mutex m_, and PinFiles may    *)
(* park in cv_.wait.  One action of the model is one critical section: the *)
(* code from the acquisition of m_ to its release (by returning, throwing  *)
(* or parking in cv_.wait) is one atomic step, so m_ is free in every      *)
(* state between steps.  Storage (open/read/write) is the environment:     *)
(* every system call the code checks for failure may fail.                 *)
(***************************************************************************)
EXTENDS Integers, Sequences, FiniteSets, TLC

(***************************************************************************)
(* Bounds of the model and program constants.                              *)
(***************************************************************************)
\* Size of a file and of a cache buffer, scaled down from 10240 bytes.
FILE_SIZE == 2
\* Length of the string a client copies into a buffer (8 in main.cc).
DataLen == 1
\* Longest file_vec a client passes.
MaxVec == 3
\* Most pins one thread holds on one name at a time.
MaxHeld == 1
\* The capacity the test driver constructs the cache with.
max_cache_entries_ == 2
\* Width given to CacheEntry::pin_count_.  The field is a uint32_t; TLC's
\* integers are 32-bit signed, so the counter wraps at 2^30 here, far above
\* every count the bounded clients reach.
PinCountBits == 30

NameSeq == <<"file1", "file2", "file3", "file4">>
Names == {NameSeq[i] : i \in 1..Len(NameSeq)}
\* Position of a name in the iteration order of std::map / std::set.
Ord(n) == CHOOSE i \in 1..Len(NameSeq) : NameSeq[i] = n
\* Names the clients of the general specification ask for.
ReqNames == {"file1", "file2", "file3"}
Threads == {"t1", "t2", "t3"}
\* The threads that run in the general specification and in the test driver.
Clients == {"t1", "t2"}
NoThread == "none"

\* Byte values: NUL, the character '0' written by memset, and client data.
NUL == 0
CharZero == 48
CharA == 97
\* The string a client copies with strncpy through a mutable pointer.
ClientData == {[i \in 1..DataLen |-> CharA]}
\* The names the clients of the general specification write to.
WriteNames == {"file1"}

\* Outcomes of the storage system calls.
LoadOutcomes == {"ok", "open_fail", "read_fail"}
WriteOutcomes == {"ok", "fail"}

VARIABLES
    file_cache_,     \* the cache table: resident name -> CacheEntry
    m_,              \* owner of the mutex, or NoThread
    alive,           \* FALSE once the cache object is destroyed
    storage,         \* the file system: name -> [exists, data]
    open_fds,        \* name -> number of open descriptors on that file
    pc,              \* thread -> where it is
    file_vec,        \* thread -> argument of the call in progress
    files_not_pinned,\* thread -> PinFiles' local set
    got,             \* thread -> pins the PinFiles call in progress has taken
    held,            \* thread -> pins taken by its completed PinFiles calls
    threw,           \* the last step was a PinFiles call ending in a throw
    last_evicted,    \* names erased by evict_cache_entries in the last step
    load_failed,     \* names whose open or read failed in the last step
    written,         \* name -> buffer as last written by a client, or <<>>
    flush_lost,      \* name -> a write-back of `written` failed since
    prog             \* thread -> position in threadfunc (test driver only)

vars == <<file_cache_, m_, alive, storage, open_fds, pc, file_vec,
          files_not_pinned, got, held, threw, last_evicted, load_failed, written,
          flush_lost, prog>>

cacheVars == <<file_cache_, storage, open_fds>>
callVars == <<file_vec, files_not_pinned, got>>

(***************************************************************************)
(* Helpers on sequences, bags of names and the table.                      *)
(***************************************************************************)
Range(s) == {s[i] : i \in 1..Len(s)}
Occ(s, n) == Cardinality({i \in 1..Len(s) : s[i] = n})
NoPins == [n \in Names |-> 0]
Remove(fc, V) == [n \in DOMAIN fc \ V |-> fc[n]]
Min(a, b) == IF a < b THEN a ELSE b

RECURSIVE SeqsUpTo(_, _)
SeqsUpTo(S, k) ==
    IF k = 0 THEN {<<>>}
    ELSE LET shorter == SeqsUpTo(S, k - 1)
         IN shorter \cup {Append(s, x) : s \in {q \in shorter : Len(q) = k - 1}, x \in S}

\* The vectors a client passes: non-empty sets of names.  The code reads a
\* vector through a map lookup or a set insertion per element, so one order
\* per set of names is enough: the sorted one.
Vecs == {v \in SeqsUpTo(ReqNames, MaxVec) \ {<<>>} :
            \A i \in 1..(Len(v) - 1) : Ord(v[i]) < Ord(v[i + 1])}
\* The vectors of the three-thread specification.
WakeVecs == {<<"file1", "file2">>, <<"file2">>, <<"file3">>}

\* The helpers below pass the state they have built to the next iteration
\* or helper as the one element of a set, CHOOSE r \in {F(x) : x \in {v}},
\* which is F(v) with v evaluated once, before F is applied.

(***************************************************************************)
(* Storage: the system calls of file_cache_impl.cc.  A file is a record    *)
(* [exists, data]; data is the sequence of its bytes.                      *)
(***************************************************************************)
NoFile == [exists |-> FALSE, data |-> <<>>]

\* ::open(name, O_RDWR | O_CREAT, 0777): creates an empty file when absent.
Open(st, name, outcome) ==
    IF outcome = "open_fail" \/ st[name].exists THEN st
    ELSE [st EXCEPT ![name] = [exists |-> TRUE, data |-> <<>>]]

\* Mutant: add_cache_entry not reading the file into the buffer.
ReadNone(buf, data) == buf

\* ::read(fd, buf, FILE_SIZE) from offset 0: overwrites the first nbytes of
\* buf, nbytes being the smaller of the file's length and FILE_SIZE.
Read(buf, data) ==
    [i \in 1..FILE_SIZE |-> IF i <= Min(Len(data), FILE_SIZE) THEN data[i] ELSE buf[i]]

\* ::lseek(fd, 0, SEEK_SET); ::write(fd, buf, FILE_SIZE): replaces the first
\* FILE_SIZE bytes of the file, or changes nothing when it fails.
Write(st, name, buf, outcome) ==
    IF outcome = "fail" THEN st
    ELSE [st EXCEPT ![name] =
            [exists |-> TRUE,
             data |-> [i \in 1..(IF Len(@.data) > FILE_SIZE THEN Len(@.data) ELSE FILE_SIZE)
                         |-> IF i <= FILE_SIZE THEN buf[i] ELSE @.data[i]]]]

(***************************************************************************)
(* The cache entry and the private helpers of FileCacheImpl.  They work on *)
(* a record s = [fc, st, fds]: the table, the storage, the descriptors.    *)
(***************************************************************************)
CacheEntry(file_buf, pin_count, fd) ==
    [file_buf_ |-> file_buf, pin_count_ |-> pin_count, dirty_ |-> FALSE, fd_ |-> fd]

\* pin_count_++ and pin_count_-- on a uint32_t.
Incr(c, k) == (c + k) % (2 ^ PinCountBits)
Decr(c) == (c - 1) % (2 ^ PinCountBits)

\* CacheEntry::~CacheEntry for entry e of file name: only an entry with
\* pin_count_ 0 is flushed (when dirty) and has its descriptor closed.
DestroyEntry(s, name, e, outcome) ==
    IF e.pin_count_ = 0
    THEN [s EXCEPT !.st = IF e.dirty_ THEN Write(s.st, name, e.file_buf_, outcome) ELSE @,
                   !.fds = [@ EXCEPT ![name] = @ - 1]]
    ELSE s

\* Mutant: PinFiles finding no entry to evict although one has pin_count_ 0.
NoneEvictable(fc) == FALSE

cache_entries_evictable(fc) == \E n \in DOMAIN fc : fc[n].pin_count_ = 0

\* Mutant: evict_cache_entries erasing entries whatever their pin count.
EvictableAny(e) == TRUE

\* The test evict_cache_entries makes before it erases an entry.
Evictable(e) == e.pin_count_ = 0

\* Mutant: evict_cache_entries keeping an entry whose write-back failed.
EraseIfFlushed(fc, n, outcome) == IF outcome = "fail" THEN fc ELSE Remove(fc, {n})

\* file_cache_.erase(fitr++): runs after the write-back, whatever its outcome.
EraseEntry(fc, n, outcome) == Remove(fc, {n})

\* Mutant: evict_cache_entries not stopping at the number it was asked for.
EnoughNever(cache_entries_evicted, num_cache_entries) == FALSE

\* The test evict_cache_entries breaks out of its loop on.
Enough(cache_entries_evicted, num_cache_entries) ==
    cache_entries_evicted = num_cache_entries

\* evict_cache_entries(num): walks the map in key order from position i,
\* writes back and erases entries with pin_count_ 0 and stops after num of
\* them.  wo[n] = <<outcome of the write in the loop, outcome of the write
\* in the destructor that erase runs>>.  Returns s and the erased names.
RECURSIVE EvictFrom(_, _, _, _, _)
EvictFrom(s, i, evicted, num, wo) ==
    IF i > Len(NameSeq) THEN [s |-> s, evicted |-> evicted]
    ELSE LET n == NameSeq[i] IN
         IF n \in DOMAIN s.fc /\ Evictable(s.fc[n])
         THEN LET e == s.fc[n]
                  s1 == IF e.dirty_
                        THEN [s EXCEPT !.st = Write(s.st, n, e.file_buf_, wo[n][1])]
                        ELSE s
                  s2 == DestroyEntry([s1 EXCEPT !.fc =
                                         EraseEntry(@, n, IF e.dirty_ THEN wo[n][1] ELSE "ok")],
                                     n, e, IF e.dirty_ THEN wo[n][2] ELSE "ok")
                  ev == evicted \cup {n}
              IN IF Enough(Cardinality(ev), num)
                 THEN [s |-> s2, evicted |-> ev]
                 ELSE CHOOSE r \in {EvictFrom(x, i + 1, ev, num, wo) : x \in {s2}} : TRUE
         ELSE EvictFrom(s, i + 1, evicted, num, wo)

evict_cache_entries(s, num, wo) == EvictFrom(s, 1, {}, num, wo)

\* Mutant: add_cache_entry inserting the entry although the read failed.
AddPartialEntry(s, name, outcome) ==
    IF outcome = "open_fail" THEN s
    ELSE [s EXCEPT !.st = Open(s.st, name, outcome),
                   !.fds = [@ EXCEPT ![name] = @ + 1],
                   !.fc = (name :> CacheEntry([i \in 1..FILE_SIZE |-> CharZero], 1, name)) @@ @]

\* add_cache_entry(name): open, read into a buffer preset to '0', insert an
\* entry with pin_count 1.  std::map::insert leaves an existing entry alone;
\* the temporaries (pin_count 1) close nothing when they are destroyed.
add_cache_entry(s, name, outcome) ==
    IF outcome = "open_fail" THEN s
    ELSE LET st1 == Open(s.st, name, outcome) IN
         IF outcome = "read_fail" THEN [s EXCEPT !.st = st1]
         ELSE LET buf == Read([i \in 1..FILE_SIZE |-> CharZero], st1[name].data)
                  e == CacheEntry(buf, 1, name)
              IN [s EXCEPT !.st = st1,
                           !.fds = [@ EXCEPT ![name] = @ + 1],
                           !.fc = IF name \in DOMAIN @ THEN @ ELSE (name :> e) @@ @]

\* Mutant: fill_up_cache not stopping when the free slots are used up.
HasRoomAlways(empty_cache_entries) == TRUE

\* The guard of the loop of fill_up_cache on the free slots left.
HasRoom(empty_cache_entries) == empty_cache_entries > 0

\* The loop of fill_up_cache: one add_cache_entry per free slot counted at
\* entry, each name erased from files_not_pinned whether or not it loaded.
\* lo gives the outcome of the load of each name that is absent when the
\* critical section begins; any other load succeeds.
RECURSIVE FillLoop(_, _, _, _)
FillLoop(s, fnp, empty_cache_entries, lo) ==
    IF fnp = {} \/ ~HasRoom(empty_cache_entries) THEN [s |-> s, fnp |-> fnp]
    ELSE LET n == CHOOSE x \in fnp : \A y \in fnp : Ord(x) <= Ord(y)
         IN CHOOSE r \in {FillLoop(x, fnp \ {n}, empty_cache_entries - 1, lo) :
                              x \in {add_cache_entry(s, n, IF n \in DOMAIN lo THEN lo[n] ELSE "ok")}} : TRUE

fill_up_cache(s, fnp, lo) ==
    FillLoop(s, fnp, max_cache_entries_ - Cardinality(DOMAIN s.fc), lo)

(***************************************************************************)
(* PinFiles.  A critical section of PinFiles is computed on s = [fc, st,   *)
(* fds] and yields [s, fnp, got, evicted, status, rounds]: the local       *)
(* files_not_pinned, the pins taken so far by this call, the names erased, *)
(* whether the section ends by returning or by parking in cv_.wait, and    *)
(* one record per call of evict_cache_entries: the number it returned, the *)
(* size of files_not_pinned it was given, and the names fill_up_cache then *)
(* passed to add_cache_entry although they were resident.                  *)
(***************************************************************************)
\* Mutant: the size check off by one.
TooManyFilesOffByOne(vec) == Len(vec) > max_cache_entries_ + 1

\* The precondition PinFiles throws std::runtime_error on.
TooManyFiles(vec) == Len(vec) > max_cache_entries_

\* Mutant: the re-check after cv_.wait forgetting pin_count_++.
ClaimNone(fc, claimed) == fc

\* pin_count_++ on every name of `claimed` (all resident).
Claim(fc, claimed) ==
    [n \in DOMAIN fc |-> IF n \in claimed
                         THEN [fc[n] EXCEPT !.pin_count_ = Incr(@, 1)] ELSE fc[n]]

AddPins(g, S) == [n \in Names |-> IF n \in S THEN g[n] + 1 ELSE g[n]]

\* Mutant: the re-check after cv_.wait finding none of its names resident.
FoundNone(fnp, fc) == {}

\* The names of files_not_pinned that file_cache_.find finds in the table.
Found(fnp, fc) == fnp \cap DOMAIN fc

\* The while loop of PinFiles from its test on files_not_pinned, up to the
\* return or the next cv_.wait.
RECURSIVE PinLoop(_, _, _, _, _, _)
PinLoop(s, fnp, g, ev, lo, wo) ==
    IF fnp = {}
    THEN [s |-> s, fnp |-> fnp, got |-> g, evicted |-> ev, status |-> "return", rounds |-> {}]
    ELSE IF ~cache_entries_evictable(s.fc)
    THEN [s |-> s, fnp |-> fnp, got |-> g, evicted |-> ev, status |-> "wait", rounds |-> {}]
    ELSE LET claimed == Found(fnp, s.fc)
             s1 == [s EXCEPT !.fc = Claim(@, claimed)]
             fnp1 == fnp \ claimed
             g1 == AddPins(g, claimed)
         IN IF fnp1 = {} THEN PinLoop(s1, fnp1, g1, ev, lo, wo)
            ELSE LET Fill(e) ==
                        LET Again(f) ==
                               [PinLoop(f.s, f.fnp,
                                        AddPins(g1, DOMAIN f.s.fc \ DOMAIN e.s.fc),
                                        ev \cup e.evicted, lo, wo)
                                  EXCEPT !.rounds = @ \cup
                                     {[evicted |-> Cardinality(e.evicted),
                                       size |-> Cardinality(fnp1),
                                       reloaded |-> (fnp1 \ f.fnp) \cap DOMAIN e.s.fc]}]
                        IN CHOOSE r \in {Again(x) :
                                             x \in {fill_up_cache(e.s, fnp1, lo)}} : TRUE
                 IN CHOOSE r \in {Fill(x) :
                                      x \in {evict_cache_entries(s1, Cardinality(fnp1), wo)}} : TRUE

\* PinFiles from the fast path (the size check has passed) to the return
\* or the first cv_.wait.
PinFilesBody(s, vec, lo, wo) ==
    LET fc1 == [n \in DOMAIN s.fc |->
                  [s.fc[n] EXCEPT !.pin_count_ = Incr(@, Occ(vec, n))]]
        fnp == Range(vec) \ DOMAIN s.fc
        g1 == [n \in Names |-> IF n \in DOMAIN s.fc THEN Occ(vec, n) ELSE 0]
        AfterFill(f) ==
            LET g2 == AddPins(g1, DOMAIN f.s.fc \ DOMAIN s.fc)
            IN IF f.fnp = {}
               THEN [s |-> f.s, fnp |-> f.fnp, got |-> g2, evicted |-> {},
                     status |-> "return", rounds |-> {}]
               ELSE PinLoop(f.s, f.fnp, g2, {}, lo, wo)
    IN CHOOSE r \in {AfterFill(x) : x \in {fill_up_cache([s EXCEPT !.fc = fc1], fnp, lo)}} : TRUE

\* UnpinFiles' loop over file_vec from position i: s is [fc, flag], flag
\* being cache_entry_evictable.
RECURSIVE UnpinLoop(_, _, _)
UnpinLoop(s, vec, i) ==
    IF i > Len(vec) THEN s
    ELSE LET n == vec[i] IN
         IF n \in DOMAIN s.fc
         THEN LET c == Decr(s.fc[n].pin_count_)
              IN CHOOSE r \in {UnpinLoop(x, vec, i + 1) :
                                   x \in {[fc |-> [s.fc EXCEPT ![n].pin_count_ = c],
                                           flag |-> s.flag \/ c = 0]}} : TRUE
         ELSE UnpinLoop(s, vec, i + 1)

\* Mutant: cv_.notify_one() in place of notify_all: one parked thread wakes.
notify_one(p) ==
    IF \E t \in Threads : p[t] = "wait"
    THEN [p EXCEPT ![CHOOSE t \in Threads : p[t] = "wait"] = "woken"]
    ELSE p

\* cv_.notify_all(): every thread parked in cv_.wait becomes runnable.
notify_all(p) == [t \in Threads |-> IF p[t] = "wait" THEN "woken" ELSE p[t]]

\* strncpy(file_wbuf, data, size) by a client holding the mutable pointer.
Strncpy(buf, data) ==
    [i \in 1..Len(buf) |-> IF i <= Len(data) THEN data[i] ELSE buf[i]]

(***************************************************************************)
(* The state after construction: an empty table, no file on storage.       *)
(***************************************************************************)
EmptyCache == [n \in {} |-> 0]

Init ==
    /\ file_cache_ = EmptyCache
    /\ m_ = NoThread
    /\ alive = TRUE
    /\ storage = [n \in Names |-> NoFile]
    /\ open_fds = [n \in Names |-> 0]
    /\ pc = [t \in Threads |-> "idle"]
    /\ file_vec = [t \in Threads |-> <<>>]
    /\ files_not_pinned = [t \in Threads |-> {}]
    /\ got = [t \in Threads |-> NoPins]
    /\ held = [t \in Threads |-> NoPins]
    /\ threw = FALSE
    /\ last_evicted = {}
    /\ load_failed = {}
    /\ written = [n \in Names |-> <<>>]
    /\ flush_lost = [n \in Names |-> FALSE]
    /\ prog = [t \in Threads |-> 0]

(***************************************************************************)
(* The operations.  Each action is one critical section: it takes m_ (the  *)
(* lock_guard / unique_lock constructor, enabled when m_ is free), runs    *)
(* the code up to the point where m_ is released, and releases it.         *)
(***************************************************************************)
\* The mutex after the lock object of thread t is destroyed or cv_.wait
\* has parked t.
Unlock(t) == NoThread

CacheState == [fc |-> file_cache_, st |-> storage, fds |-> open_fds]

\* The dirty entries with pin_count_ 0: those a destructor writes back.
DirtyVictims == {n \in DOMAIN file_cache_ :
                    file_cache_[n].dirty_ /\ file_cache_[n].pin_count_ = 0}

\* The entries a PinFiles section asking for `wanted` may write back: none
\* when the names to load fit in the free slots (fill_up_cache then empties
\* files_not_pinned), and never an entry the section itself pins.
Victims(wanted) ==
    LET missing == wanted \ DOMAIN file_cache_
    IN IF Cardinality(missing) <= max_cache_entries_ - Cardinality(DOMAIN file_cache_)
       THEN {}
       ELSE DirtyVictims \ wanted

\* The loads section r attempted and that failed: a name r took out of
\* files_not_pinned whose open or read failed.
Failed(lo, r) == {n \in DOMAIN lo \ r.fnp : lo[n] # "ok"}

\* The outcomes lo and wo chosen for section r are those of calls r made:
\* a load that was not attempted and a write-back that did not happen have
\* no outcome (they are fixed to "ok").
Made(lo, wo, r) ==
    /\ \A n \in DOMAIN lo \cap r.fnp : lo[n] = "ok"
    /\ \A n \in DOMAIN wo \ r.evicted : wo[n] = <<"ok", "ok">>

\* The end of a critical section r of PinFiles run by thread t.
EndPinSection(t, vec, r) ==
    /\ file_cache_' = r.s.fc
    /\ storage' = r.s.st
    /\ open_fds' = r.s.fds
    /\ m_' = Unlock(t)
    /\ threw' = FALSE
    /\ last_evicted' = r.evicted
    /\ flush_lost' = [n \in Names |->
                        IF /\ n \in r.evicted
                           /\ file_cache_[n].dirty_
                           /\ r.s.st[n].data # file_cache_[n].file_buf_
                        THEN TRUE ELSE flush_lost[n]]
    /\ IF r.status = "return"
       THEN /\ pc' = [pc EXCEPT ![t] = "idle"]
            /\ held' = [held EXCEPT ![t] = [n \in Names |-> @[n] + r.got[n]]]
            /\ got' = [got EXCEPT ![t] = NoPins]
            /\ files_not_pinned' = [files_not_pinned EXCEPT ![t] = {}]
            /\ file_vec' = [file_vec EXCEPT ![t] = <<>>]
       ELSE /\ pc' = [pc EXCEPT ![t] = "wait"]
            /\ got' = [got EXCEPT ![t] = r.got]
            /\ files_not_pinned' = [files_not_pinned EXCEPT ![t] = r.fnp]
            /\ file_vec' = [file_vec EXCEPT ![t] = vec]
            /\ UNCHANGED held
    /\ UNCHANGED <<alive, written>>

\* The most pins a client takes on name n: it pins again a name it already
\* holds only if it is one of the names it writes.
MaxHeldOn(n) == IF n \in WriteNames THEN MaxHeld ELSE 1

\* PinFiles(file_vec) from its call to its return, its throw or its first
\* cv_.wait.
PinFilesCall(t, vec, LO, WO) ==
    /\ alive
    /\ pc[t] = "idle"
    /\ m_ = NoThread
    /\ IF TooManyFiles(vec)
       THEN /\ m_' = Unlock(t)
            /\ threw' = TRUE
            /\ last_evicted' = {}
            /\ load_failed' = {}
            /\ UNCHANGED <<cacheVars, alive, pc, callVars, held, written, flush_lost>>
       ELSE \E lo \in [Range(vec) \ DOMAIN file_cache_ -> LO],
               wo \in [Victims(Range(vec)) -> WO \X WO] :
                \E r \in {PinFilesBody(CacheState, vec, lo, wo)} :
                    /\ Made(lo, wo, r)
                    /\ load_failed' = Failed(lo, r)
                    /\ EndPinSection(t, vec, r)

\* PinFiles called by a client that never holds more than MaxHeldOn(n) pins
\* on name n.
PinFiles(t, vec, LO, WO) ==
    /\ \A n \in Names : held[t][n] + Occ(vec, n) <= MaxHeldOn(n)
    /\ PinFilesCall(t, vec, LO, WO)

\* PinFiles from the return of cv_.wait (m_ taken again) to its return or
\* its next wait.
PinFilesResume(t, LO, WO) ==
    /\ pc[t] = "woken"
    /\ m_ = NoThread
    /\ \E lo \in [files_not_pinned[t] \ DOMAIN file_cache_ -> LO],
          wo \in [DirtyVictims \ files_not_pinned[t] -> WO \X WO] :
          \E r \in {PinLoop(CacheState, files_not_pinned[t], got[t], {}, lo, wo)} :
              /\ Made(lo, wo, r)
              /\ load_failed' = Failed(lo, r)
              /\ EndPinSection(t, file_vec[t], r)

\* A wakeup of cv_.wait without a notification.
SpuriousWakeup(t) ==
    /\ pc[t] = "wait"
    /\ pc' = [pc EXCEPT ![t] = "woken"]
    /\ threw' = FALSE
    /\ last_evicted' = {}
    /\ load_failed' = {}
    /\ UNCHANGED <<cacheVars, m_, alive, callVars, held, written, flush_lost>>

\* Mutant: UnpinFiles never notifying.
ShouldNotifyNever(cache_entry_evictable) == FALSE

\* The condition under which UnpinFiles calls cv_.notify_all.
ShouldNotify(cache_entry_evictable) == cache_entry_evictable

\* UnpinFiles(file_vec).
UnpinFilesCall(t, vec) ==
    /\ alive
    /\ pc[t] = "idle"
    /\ m_ = NoThread
    /\ LET r == UnpinLoop([fc |-> file_cache_, flag |-> FALSE], vec, 1)
       IN /\ file_cache_' = r.fc
          /\ pc' = IF ShouldNotify(r.flag) THEN notify_all(pc) ELSE pc
    /\ held' = [held EXCEPT ![t] = [n \in Names |->
                                       IF @[n] > Occ(vec, n) THEN @[n] - Occ(vec, n) ELSE 0]]
    /\ m_' = Unlock(t)
    /\ threw' = FALSE
    /\ last_evicted' = {}
    /\ load_failed' = {}
    /\ UNCHANGED <<storage, open_fds, alive, callVars, written, flush_lost>>

\* UnpinFiles called by a client that unpins no more pins than its calls of
\* PinFiles have taken.
UnpinFiles(t, vec) ==
    /\ \A n \in Names : Occ(vec, n) <= held[t][n]
    /\ UnpinFilesCall(t, vec)

\* FileData(file_name), by a client that holds a pin on the name or asks
\* for a name that is not resident (the pointer returned is then null).
FileData(t, n) ==
    /\ alive
    /\ pc[t] = "idle"
    /\ m_ = NoThread
    /\ held[t][n] > 0 \/ n \notin DOMAIN file_cache_
    /\ m_' = Unlock(t)
    /\ threw' = FALSE
    /\ last_evicted' = {}
    /\ load_failed' = {}
    /\ UNCHANGED <<cacheVars, alive, pc, callVars, held, written, flush_lost>>

\* MutableFileData(file_name), and the strncpy of `data` through the
\* returned pointer by the caller, which holds a pin on the name.  When the
\* name is not resident the pointer is null and the caller writes nothing.
MutableFileData(t, n, data) ==
    /\ alive
    /\ pc[t] = "idle"
    /\ m_ = NoThread
    /\ held[t][n] > 0 \/ n \notin DOMAIN file_cache_
    /\ IF n \notin DOMAIN file_cache_
       THEN UNCHANGED <<file_cache_, written, flush_lost>>
       ELSE LET buf == Strncpy(file_cache_[n].file_buf_, data)
            IN /\ file_cache_' = [file_cache_ EXCEPT ![n].dirty_ = TRUE,
                                                     ![n].file_buf_ = buf]
               /\ written' = [written EXCEPT ![n] = buf]
               /\ flush_lost' = [flush_lost EXCEPT ![n] = FALSE]
    /\ m_' = Unlock(t)
    /\ threw' = FALSE
    /\ last_evicted' = {}
    /\ load_failed' = {}
    /\ UNCHANGED <<storage, open_fds, alive, pc, callVars, held>>

\* The destructors the map runs on its entries, in key order from i.
RECURSIVE DestroyFrom(_, _, _, _)
DestroyFrom(s, fc, i, wd) ==
    IF i > Len(NameSeq) THEN s
    ELSE LET n == NameSeq[i] IN
         IF n \in DOMAIN fc
         THEN CHOOSE r \in {DestroyFrom(x, fc, i + 1, wd) :
                                x \in {DestroyEntry(s, n, fc[n],
                                                    IF n \in DOMAIN wd THEN wd[n] ELSE "ok")}} : TRUE
         ELSE DestroyFrom(s, fc, i + 1, wd)

\* ~FileCacheImpl: the cache is destroyed while no call is in progress.
\* The pins and the record of the clients' writes end with the object.
Destroy(WO) ==
    /\ alive
    /\ m_ = NoThread
    /\ \A t \in Threads : pc[t] = "idle"
    /\ \E wd \in [DirtyVictims -> WO] :
          LET s == DestroyFrom([CacheState EXCEPT !.fc = EmptyCache], file_cache_, 1, wd)
          IN /\ storage' = s.st
             /\ open_fds' = s.fds
    /\ file_cache_' = EmptyCache
    /\ alive' = FALSE
    /\ held' = [t \in Threads |-> NoPins]
    /\ written' = [n \in Names |-> <<>>]
    /\ flush_lost' = [n \in Names |-> FALSE]
    /\ threw' = FALSE
    /\ last_evicted' = {}
    /\ load_failed' = {}
    /\ UNCHANGED <<m_, pc, callVars>>

(***************************************************************************)
(* The general specification: the clients call any operation, and every    *)
(* storage call may fail.                                                  *)
(***************************************************************************)
Next ==
    \/ \E t \in Clients, vec \in Vecs :
          PinFiles(t, vec, LoadOutcomes, WriteOutcomes) /\ UNCHANGED prog
    \/ \E t \in Clients :
          PinFilesResume(t, LoadOutcomes, WriteOutcomes) /\ UNCHANGED prog
    \/ \E t \in Clients : SpuriousWakeup(t) /\ UNCHANGED prog
    \/ \E t \in Clients, vec \in Vecs : UnpinFiles(t, vec) /\ UNCHANGED prog
    \/ \E t \in Clients, n \in ReqNames : FileData(t, n) /\ UNCHANGED prog
    \/ \E t \in Clients, n \in WriteNames, data \in ClientData :
          MutableFileData(t, n, data) /\ UNCHANGED prog
    \/ Destroy(WriteOutcomes) /\ UNCHANGED prog

Spec == Init /\ [][Next]_vars

(***************************************************************************)
(* The same clients on storage whose calls all succeed.                    *)
(***************************************************************************)
NextReliable ==
    \/ \E t \in Clients, vec \in Vecs :
          PinFiles(t, vec, {"ok"}, {"ok"}) /\ UNCHANGED prog
    \/ \E t \in Clients : PinFilesResume(t, {"ok"}, {"ok"}) /\ UNCHANGED prog
    \/ \E t \in Clients : SpuriousWakeup(t) /\ UNCHANGED prog
    \/ \E t \in Clients, vec \in Vecs : UnpinFiles(t, vec) /\ UNCHANGED prog
    \/ \E t \in Clients, n \in ReqNames : FileData(t, n) /\ UNCHANGED prog
    \/ \E t \in Clients, n \in WriteNames, data \in ClientData :
          MutableFileData(t, n, data) /\ UNCHANGED prog
    \/ Destroy({"ok"}) /\ UNCHANGED prog

SpecReliable == Init /\ [][NextReliable]_vars

(***************************************************************************)
(* The test driver main.cc: a cache of capacity 2 and two threads running  *)
(* threadfunc, t1 on {file1, file2} and t2 on {file3, file4}.  prog[t] is  *)
(* the number of calls of threadfunc thread t has made.  The driver runs   *)
(* on files of the working directory; its storage calls succeed.           *)
(***************************************************************************)
MainVec(t) == IF t = "t1" THEN <<"file1", "file2">> ELSE <<"file3", "file4">>
\* file1_data .. file4_data, cut to DataLen characters: "a..", "c..", "e..", "g..".
MainData(n) == [i \in 1..DataLen |-> CharA + 2 * (Ord(n) - 1)]
ProgDone == 8
\* The position of a thread whose assert failed.
Aborted == 9
\* A std::string's c_str(): the characters and the terminating NUL.
CStr(data) == Append(data, NUL)
\* strncmp(s1, s2, n): 0 when the first n characters, or the characters up
\* to a common NUL, are equal; non-zero (1 here) otherwise.
Strncmp(s1, s2, n) ==
    IF \E i \in 1..n : /\ s1[i] # s2[i]
                       /\ \A j \in 1..(i - 1) : s1[j] = s2[j] /\ s1[j] # NUL
    THEN 1 ELSE 0
Advance(t) == prog' = [prog EXCEPT ![t] = @ + 1]

\* fc->PinFiles(file_vec), first and second time.
MainPinFiles(t) ==
    /\ prog[t] \in {0, 4}
    /\ PinFiles(t, MainVec(t), {"ok"}, {"ok"})
    /\ Advance(t)

\* The loop over files_info calling MutableFileData and strncpy.
MainMutableFileData(t) ==
    /\ prog[t] \in {1, 2}
    /\ MutableFileData(t, MainVec(t)[prog[t]], MainData(MainVec(t)[prog[t]]))
    /\ Advance(t)

\* fc->UnpinFiles(file_vec), first and second time.
MainUnpinFiles(t) ==
    /\ prog[t] \in {3, 7}
    /\ UnpinFiles(t, MainVec(t))
    /\ Advance(t)

\* The loop over files_info calling FileData and asserting that strncmp
\* of the buffer and the string, over size() + 1 characters, is non-zero.
MainFileData(t) ==
    /\ prog[t] \in {5, 6}
    /\ MainVec(t)[prog[t] - 4] \in DOMAIN file_cache_
    /\ FileData(t, MainVec(t)[prog[t] - 4])
    /\ LET n == MainVec(t)[prog[t] - 4]
       IN IF Strncmp(file_cache_[n].file_buf_, CStr(MainData(n)), DataLen + 1) # 0
          THEN Advance(t)
          ELSE prog' = [prog EXCEPT ![t] = Aborted]

\* main returns after both joins: the last shared_ptr destroys the cache.
MainExit ==
    /\ \A t \in Clients : prog[t] = ProgDone
    /\ Destroy({"ok"})
    /\ UNCHANGED prog

\* The steps of thread t the scheduler must eventually run.
MainThread(t) ==
    \/ MainPinFiles(t)
    \/ PinFilesResume(t, {"ok"}, {"ok"}) /\ UNCHANGED prog
    \/ MainMutableFileData(t)
    \/ MainUnpinFiles(t)
    \/ MainFileData(t)

NextMain ==
    \/ \E t \in Clients : MainPinFiles(t)
    \/ \E t \in Clients : PinFilesResume(t, {"ok"}, {"ok"}) /\ UNCHANGED prog
    \/ \E t \in Clients : SpuriousWakeup(t) /\ UNCHANGED prog
    \/ \E t \in Clients : MainMutableFileData(t)
    \/ \E t \in Clients : MainUnpinFiles(t)
    \/ \E t \in Clients : MainFileData(t)
    \/ MainExit

SpecMain == Init /\ [][NextMain]_vars /\ \A t \in Clients : WF_vars(MainThread(t))

(***************************************************************************)
(* Three threads that only pin and unpin, on storage whose calls succeed:  *)
(* two of them can be parked in cv_.wait at the same time.                 *)
(***************************************************************************)
NextWake ==
    \/ \E t \in Threads, vec \in WakeVecs :
          PinFiles(t, vec, {"ok"}, {"ok"}) /\ UNCHANGED prog
    \/ \E t \in Threads : PinFilesResume(t, {"ok"}, {"ok"}) /\ UNCHANGED prog
    \/ \E t \in Threads : SpuriousWakeup(t) /\ UNCHANGED prog
    \/ \E t \in Threads, vec \in WakeVecs : UnpinFiles(t, vec) /\ UNCHANGED prog

SpecWake == Init /\ [][NextWake]_vars

(***************************************************************************)
(* Two clients that only pin and unpin, on storage whose opens and reads   *)
(* may fail.                                                               *)
(***************************************************************************)
NextLoad ==
    \/ \E t \in Clients, vec \in Vecs :
          PinFiles(t, vec, LoadOutcomes, {"ok"}) /\ UNCHANGED prog
    \/ \E t \in Clients : PinFilesResume(t, LoadOutcomes, {"ok"}) /\ UNCHANGED prog
    \/ \E t \in Clients : SpuriousWakeup(t) /\ UNCHANGED prog
    \/ \E t \in Clients, vec \in Vecs : UnpinFiles(t, vec) /\ UNCHANGED prog

SpecLoad == Init /\ [][NextLoad]_vars

(***************************************************************************)
(* Two clients that pin and unpin any of the four names, on storage that   *)
(* does not fail.                                                          *)
(***************************************************************************)
RoundVecs == {v \in SeqsUpTo(Names, MaxVec) \ {<<>>} :
                 \A i \in 1..(Len(v) - 1) : Ord(v[i]) < Ord(v[i + 1])}

NextRounds ==
    \/ \E t \in Clients, vec \in RoundVecs :
          PinFiles(t, vec, {"ok"}, {"ok"}) /\ UNCHANGED prog
    \/ \E t \in Clients : PinFilesResume(t, {"ok"}, {"ok"}) /\ UNCHANGED prog
    \/ \E t \in Clients : SpuriousWakeup(t) /\ UNCHANGED prog
    \/ \E t \in Clients, vec \in RoundVecs : UnpinFiles(t, vec) /\ UNCHANGED prog

SpecRounds == Init /\ [][NextRounds]_vars

(***************************************************************************)
(* Two clients that use the cache as threadfunc does, PinFiles(file_vec)   *)
(* and later UnpinFiles(file_vec) with the same vector, for any vector,    *)
(* one that lists a name several times included.  prog[t] is the code of   *)
(* the vector thread t has passed to PinFiles and not yet to UnpinFiles, 0 *)
(* when there is none.  The clients are responsible ones: a client calls   *)
(* PinFiles only if the names all clients then hold or ask for are no more *)
(* than the cache can hold.  Storage does not fail.                        *)
(***************************************************************************)
DupVecs == SeqsUpTo(ReqNames, MaxVec) \ {<<>>}

RECURSIVE VecCode(_)
VecCode(vec) ==
    IF vec = <<>> THEN 0 ELSE Ord(Head(vec)) + (Len(NameSeq) + 1) * VecCode(Tail(vec))

CodedVec(c) == CHOOSE vec \in DupVecs : VecCode(vec) = c

\* The names that the clients hold pinned or ask for in a call in progress.
InUse(p) == UNION {Range(CodedVec(p[t])) : t \in {u \in Clients : p[u] # 0}}

DupPinFiles(t, vec) ==
    /\ prog[t] = 0
    /\ Cardinality(InUse(prog) \cup Range(vec)) <= max_cache_entries_
    /\ PinFilesCall(t, vec, {"ok"}, {"ok"})
    /\ prog' = [prog EXCEPT ![t] = IF TooManyFiles(vec) THEN 0 ELSE VecCode(vec)]

DupUnpinFiles(t) ==
    /\ prog[t] # 0
    /\ UnpinFilesCall(t, CodedVec(prog[t]))
    /\ prog' = [prog EXCEPT ![t] = 0]

NextDup ==
    \/ \E t \in Clients, vec \in DupVecs : DupPinFiles(t, vec)
    \/ \E t \in Clients : PinFilesResume(t, {"ok"}, {"ok"}) /\ UNCHANGED prog
    \/ \E t \in Clients : SpuriousWakeup(t) /\ UNCHANGED prog
    \/ \E t \in Clients : DupUnpinFiles(t)

SpecDup == Init /\ [][NextDup]_vars

(***************************************************************************)
(* The critical sections of PinFiles a state allows: one per outcome of    *)
(* the storage calls the section makes.  Each is a record [lo, wo, r] of   *)
(* the outcomes and of the result the section computes.                    *)
(***************************************************************************)
\* The sections of a call PinFiles(vec) that begins in this state.
FirstSections(vec, LO, WO) ==
    {x \in {[lo |-> lo, wo |-> wo, r |-> PinFilesBody(CacheState, vec, lo, wo)] :
               lo \in [Range(vec) \ DOMAIN file_cache_ -> LO],
               wo \in [Victims(Range(vec)) -> WO \X WO]} :
        Made(x.lo, x.wo, x.r)}

\* The sections of the call of thread t, woken from cv_.wait in this state.
ResumeSections(t, LO, WO) ==
    {x \in {[lo |-> lo, wo |-> wo,
             r |-> PinLoop(CacheState, files_not_pinned[t], got[t], {}, lo, wo)] :
               lo \in [files_not_pinned[t] \ DOMAIN file_cache_ -> LO],
               wo \in [DirtyVictims \ files_not_pinned[t] -> WO \X WO]} :
        Made(x.lo, x.wo, x.r)}

\* The requests a client may make in this state (no oversized one).
Callable(t) ==
    {vec \in Vecs : /\ ~TooManyFiles(vec)
                    /\ \A n \in Names : held[t][n] + Occ(vec, n) <= MaxHeldOn(n)}

(***************************************************************************)
(* Properties.                                                             *)
(***************************************************************************)
PinCount(n) == IF n \in DOMAIN file_cache_ THEN file_cache_[n].pin_count_ ELSE 0
Size == Cardinality(DOMAIN file_cache_)
\* Pins on n taken by completed PinFiles calls and not yet given back.
HeldBy(T, n) == IF T = {} THEN 0 ELSE
    LET RECURSIVE Sum(_)
        Sum(S) == IF S = {} THEN 0
                  ELSE LET t == CHOOSE x \in S : TRUE IN held[t][n] + Sum(S \ {t})
    IN Sum(T)
\* Pins on n taken so far by PinFiles calls that have not returned.
GotBy(T, n) == IF T = {} THEN 0 ELSE
    LET RECURSIVE Sum(_)
        Sum(S) == IF S = {} THEN 0
                  ELSE LET t == CHOOSE x \in S : TRUE IN got[t][n] + Sum(S \ {t})
    IN Sum(T)

\* C1: while the cache lives, a step removes from the table only entries
\* whose pin_count was 0 before the step: no pinned entry is ever evicted.
C1_PinnedNeverEvicted ==
    [][\A n \in DOMAIN file_cache_ :
          (file_cache_[n].pin_count_ > 0 /\ alive') => n \in DOMAIN file_cache_']_vars

\* An eviction has just run and left a pinned entry, dirty from before the
\* eviction, in the table.
C1_Witness ==
    /\ last_evicted # {}
    /\ \E n \in DOMAIN file_cache_ :
          file_cache_[n].pin_count_ > 0 /\ file_cache_[n].dirty_

\* C2: whenever the mutex is free, the table holds at most
\* max_cache_entries_ entries.
C2_SizeWithinCapacity == m_ = NoThread => Size <= max_cache_entries_

\* The table is full while a PinFiles call is suspended in cv_.wait.
C2_Witness ==
    /\ m_ = NoThread
    /\ Size = max_cache_entries_
    /\ \E t \in Threads : pc[t] = "wait"

\* C3 as stated: while the cache lives, the pin_count of each name equals
\* the pins taken by completed PinFiles calls minus the pins given back by
\* completed UnpinFiles calls.
C3_CompletedCallsOnly ==
    alive => \A n \in Names : PinCount(n) = HeldBy(Threads, n)

\* C3: while the cache lives, the pin_count of each name equals the pins
\* taken on it by PinFiles calls, completed or suspended in cv_.wait, minus
\* the pins given back by completed UnpinFiles calls; it is never negative.
C3_PinCountIsPinsTaken ==
    alive => \A n \in Names :
                /\ PinCount(n) = HeldBy(Threads, n) + GotBy(Threads, n)
                /\ PinCount(n) >= 0

\* A PinFiles call is suspended in cv_.wait holding a pin on an entry that
\* a completed call of another thread pins too.
C3_Witness ==
    \E t \in Threads, n \in Names :
        /\ pc[t] = "wait"
        /\ got[t][n] > 0
        /\ PinCount(n) = 2

\* C4: a step in which a PinFiles call returns normally ends with every
\* requested name resident with a pin_count of at least 1.
C4_AllResidentOnReturn ==
    [][\A t \in Clients :
          /\ \A vec \in Vecs :
                (PinFiles(t, vec, LoadOutcomes, WriteOutcomes) /\ ~threw' /\ pc'[t] = "idle")
                => \A n \in Range(vec) :
                      n \in DOMAIN file_cache_' /\ file_cache_'[n].pin_count_ >= 1
          /\ (PinFilesResume(t, LoadOutcomes, WriteOutcomes) /\ pc'[t] = "idle")
                => \A n \in Range(file_vec[t]) :
                      n \in DOMAIN file_cache_' /\ file_cache_'[n].pin_count_ >= 1]_vars

\* C5: in the test driver, under weak fairness of each thread's steps,
\* both threads eventually reach the end of threadfunc.
C5_BothThreadsTerminate ==
    <>(\A t \in Clients : prog[t] = ProgDone /\ pc[t] = "idle")

\* Both threads have returned from threadfunc, t2 last: the table holds
\* its two files, loaded after t1's were evicted.
C5_Witness ==
    /\ \A t \in Clients : prog[t] = ProgDone /\ pc[t] = "idle"
    /\ alive
    /\ last_evicted = {}
    /\ DOMAIN file_cache_ = Range(MainVec("t2"))

\* C6: no PinFiles call is parked in cv_.wait, un-notified, while some
\* resident entry has a pin_count of 0.
C6_NoLostWakeup ==
    \A t \in Threads : pc[t] = "wait" => ~cache_entries_evictable(file_cache_)

\* An UnpinFiles call has just woken two suspended PinFiles calls at once.
C6_Witness ==
    /\ cache_entries_evictable(file_cache_)
    /\ Cardinality({t \in Threads : pc[t] = "woken"}) >= 2

\* C7: a step never makes a dirty entry clean, or removes it from the
\* table, without leaving the entry's buffer in storage.
C7_DirtyUntilFlushed ==
    [][\A n \in DOMAIN file_cache_ :
          file_cache_[n].dirty_ =>
             \/ n \in DOMAIN file_cache_' /\ file_cache_'[n].dirty_
             \/ /\ storage'[n].exists
                /\ storage'[n].data = file_cache_[n].file_buf_]_vars

\* C8 as stated: a client that holds a pin on a resident name written
\* earlier finds in the buffer the bytes as written.
C8_RoundTripAlways ==
    \A t \in Clients, n \in Names :
        (alive /\ held[t][n] > 0 /\ n \in DOMAIN file_cache_ /\ written[n] # <<>>)
        => file_cache_[n].file_buf_ = written[n]

\* C8: a client that holds a pin on a resident name written earlier finds
\* in the buffer the bytes as written, provided no write-back of those
\* bytes failed at an eviction since.
C8_RoundTripUnlessFlushLost ==
    \A t \in Clients, n \in Names :
        (alive /\ held[t][n] > 0 /\ n \in DOMAIN file_cache_ /\ written[n] # <<>>
           /\ ~flush_lost[n])
        => file_cache_[n].file_buf_ = written[n]

\* A client holds a pin on an entry reloaded from storage after its
\* eviction, whose buffer holds the bytes written before the eviction.
C8_Witness ==
    \E t \in Clients, n \in Names :
        /\ alive
        /\ held[t][n] > 0
        /\ n \in DOMAIN file_cache_
        /\ ~file_cache_[n].dirty_
        /\ ~flush_lost[n]
        /\ written[n] # <<>>
        /\ file_cache_[n].file_buf_ = written[n]

\* C9: the step that destroys the cache leaves in storage the buffer of
\* every entry that was resident and dirty, whatever its pin_count.
C9_DestructorFlushesAllDirty ==
    [][(alive /\ ~alive') =>
          \A n \in DOMAIN file_cache_ :
             file_cache_[n].dirty_ =>
                storage'[n].exists /\ storage'[n].data = file_cache_[n].file_buf_]_vars

\* C10: a PinFiles call with more names than max_cache_entries_ throws
\* without parking, changes neither the table nor storage nor any pin, and
\* leaves the mutex free.
C10_OversizedRequestRejected ==
    [][\A t \in Clients, vec \in Vecs :
          (Len(vec) > max_cache_entries_ /\ PinFiles(t, vec, LoadOutcomes, WriteOutcomes))
          => /\ threw'
             /\ pc'[t] = "idle"
             /\ m_' = NoThread
             /\ UNCHANGED <<file_cache_, storage, open_fds, held, got>>]_vars

\* An oversized request has just been rejected by a cache that holds a
\* pinned dirty entry.
C10_Witness ==
    /\ threw
    /\ \E n \in DOMAIN file_cache_ :
          file_cache_[n].pin_count_ > 0 /\ file_cache_[n].dirty_

\* C11: a load that fails inserts no entry and leaves the table and the
\* descriptors as they were; and when a PinFiles call returns after failed
\* loads, every other name it had to pin is resident and pinned.
C11_FailedLoadNotFatal ==
    /\ \A n \in Names \ DOMAIN file_cache_ :
          \A o \in LoadOutcomes \ {"ok"} :
             /\ add_cache_entry(CacheState, n, o).fc = file_cache_
             /\ add_cache_entry(CacheState, n, o).fds = open_fds
    /\ load_failed \cap DOMAIN file_cache_ = {}
    /\ \A t \in Clients :
          /\ (alive /\ pc[t] = "idle") =>
                \A vec \in Callable(t) :
                   \A x \in FirstSections(vec, LoadOutcomes, {"ok"}) :
                      /\ Failed(x.lo, x.r) \cap DOMAIN x.r.s.fc = {}
                      /\ x.r.status = "return" =>
                            \A n \in Range(vec) \ Failed(x.lo, x.r) :
                               n \in DOMAIN x.r.s.fc /\ x.r.s.fc[n].pin_count_ >= 1
          /\ pc[t] = "woken" =>
                \A x \in ResumeSections(t, LoadOutcomes, {"ok"}) :
                   /\ Failed(x.lo, x.r) \cap DOMAIN x.r.s.fc = {}
                   /\ x.r.status = "return" =>
                         \A n \in files_not_pinned[t] \ Failed(x.lo, x.r) :
                            n \in DOMAIN x.r.s.fc /\ x.r.s.fc[n].pin_count_ >= 1

\* A PinFiles call has just returned after the load of one of its names
\* failed and the load of another one succeeded.
C11_Witness ==
    /\ load_failed # {}
    /\ \E t \in Clients :
          /\ pc[t] = "idle"
          /\ \E n \in Names :
                /\ held[t][n] = 1
                /\ n \in DOMAIN file_cache_
                /\ file_cache_[n].pin_count_ = 1
                /\ \A m \in Names \ {n} : held[t][m] = 0
          /\ \A u \in Clients \ {t} : \A m \in Names : held[u][m] = 0

\* What a call of PinFiles that returns hands to its caller: the function
\* is void, and the failure of a load is written to stderr only.
PinFilesResult(r) == [value |-> "void", exception |-> FALSE]

\* C12: of two PinFiles calls that return, one with every requested name
\* pinned and one with a name whose load failed, the caller gets different
\* results.
C12_ResultTellsFailedLoads ==
    \A t \in Clients :
       (alive /\ pc[t] = "idle") =>
          \A vec \in Callable(t) :
             \A x, y \in FirstSections(vec, LoadOutcomes, {"ok"}) :
                (/\ x.r.status = "return"
                 /\ y.r.status = "return"
                 /\ Failed(x.lo, x.r) = {}
                 /\ Failed(y.lo, y.r) # {})
                => PinFilesResult(x.r) # PinFilesResult(y.r)

\* C13: a PinFiles call does not suspend in cv_.wait when, once the pin
\* counts of its resident names are raised, its non-resident names are no
\* more than the free slots plus the entries with pin_count 0; so a call
\* for max_cache_entries new names on an empty cache does not suspend.
C13_NoSuspendWhenRoom ==
    [][\A t \in Clients :
          LET vec == file_vec'[t]
              absent == Range(vec) \ DOMAIN file_cache_
              free == max_cache_entries_ - Cardinality(DOMAIN file_cache_)
              unpinned == {n \in DOMAIN file_cache_ \ Range(vec) :
                              file_cache_[n].pin_count_ = 0}
          IN (pc[t] = "idle" /\ pc'[t] = "wait")
             => /\ Cardinality(absent) > free + Cardinality(unpinned)
                /\ ~(DOMAIN file_cache_ = {} /\ Len(vec) = max_cache_entries_)]_vars

\* A call for max_cache_entries names, none of them resident, has returned
\* after evicting an entry, no call being suspended.
C13_Witness ==
    /\ last_evicted # {}
    /\ load_failed = {}
    /\ \A t \in Clients : pc[t] = "idle"
    /\ \E t \in Clients :
          /\ Cardinality({n \in Names : held[t][n] > 0}) = max_cache_entries_
          /\ \A n \in Names : held[t][n] > 0 => n \in DOMAIN file_cache_
          /\ \A u \in Clients \ {t} : \A n \in Names : held[u][n] = 0

\* C14: when a name with no file on storage becomes resident, its file
\* exists with exactly FILE_SIZE bytes, all zero, and its buffer holds
\* FILE_SIZE zero bytes.
C14_AbsentFileCreatedZeroed ==
    [][\A n \in Names :
          (~storage[n].exists /\ n \notin DOMAIN file_cache_ /\ n \in DOMAIN file_cache_')
          => /\ storage'[n].exists
             /\ storage'[n].data = [i \in 1..FILE_SIZE |-> NUL]
             /\ file_cache_'[n].file_buf_ = [i \in 1..FILE_SIZE |-> NUL]]_vars

\* C15: every call of evict_cache_entries in the loop of PinFiles evicts at
\* least one entry and at most as many as files_not_pinned has names.
C15_RoundEvictsOneToUnresolved ==
    \A t \in Clients :
       /\ (alive /\ pc[t] = "idle") =>
             \A vec \in {v \in RoundVecs : ~TooManyFiles(v)} :
                \A x \in FirstSections(vec, {"ok"}, {"ok"}) :
                   \A rd \in x.r.rounds : 1 <= rd.evicted /\ rd.evicted <= rd.size
       /\ pc[t] = "woken" =>
             \A x \in ResumeSections(t, {"ok"}, {"ok"}) :
                \A rd \in x.r.rounds : 1 <= rd.evicted /\ rd.evicted <= rd.size

\* C15 (amended): every call of evict_cache_entries in the loop of PinFiles
\* evicts at most as many entries as files_not_pinned has names, and may
\* evict none.
C15_RoundEvictsAtMostUnresolved ==
    \A t \in Clients :
       /\ (alive /\ pc[t] = "idle") =>
             \A vec \in {v \in RoundVecs : ~TooManyFiles(v)} :
                \A x \in FirstSections(vec, {"ok"}, {"ok"}) :
                   \A rd \in x.r.rounds : 0 <= rd.evicted /\ rd.evicted <= rd.size
       /\ pc[t] = "woken" =>
             \A x \in ResumeSections(t, {"ok"}, {"ok"}) :
                \A rd \in x.r.rounds : 0 <= rd.evicted /\ rd.evicted <= rd.size

\* A woken call is about to claim the only entries with pin_count 0 and to
\* call evict_cache_entries for the names it still misses.
C15_Witness ==
    \E t \in Clients :
       /\ pc[t] = "woken"
       /\ \E x \in ResumeSections(t, {"ok"}, {"ok"}) :
             \E rd \in x.r.rounds : rd.evicted = 0 /\ rd.size >= 1

\* C16: a name is never loaded while it is resident: while the cache lives
\* every resident name has one open descriptor and every other name none;
\* a call woken from its wait passes no resident name to add_cache_entry,
\* and the names of its files_not_pinned that are resident when it goes on
\* get one more pin and leave the set.
C16_NoLoadWhileResident ==
    /\ alive => \A n \in Names :
                   open_fds[n] = IF n \in DOMAIN file_cache_ THEN 1 ELSE 0
    /\ \A t \in Clients :
          pc[t] = "woken" =>
             \A x \in ResumeSections(t, LoadOutcomes, {"ok"}) :
                /\ \A rd \in x.r.rounds : rd.reloaded = {}
                /\ cache_entries_evictable(file_cache_) =>
                      \A n \in files_not_pinned[t] \cap DOMAIN file_cache_ :
                         /\ n \notin x.r.fnp
                         /\ x.r.got[n] = got[t][n] + 1
                         /\ n \in x.r.evicted
                            \/ /\ n \in DOMAIN x.r.s.fc
                               /\ x.r.s.fc[n].pin_count_ = file_cache_[n].pin_count_ + 1
                               /\ x.r.s.fds[n] = 1

\* A woken call finds resident a name it was waiting for, loaded meanwhile
\* by the other client, and an entry to evict.
C16_Witness ==
    \E t \in Clients :
       /\ pc[t] = "woken"
       /\ cache_entries_evictable(file_cache_)
       /\ \E n \in files_not_pinned[t] \cap DOMAIN file_cache_ :
             /\ open_fds[n] = 1
             /\ \E u \in Clients \ {t} : held[u][n] = 1

\* C17: a write-back that fails during eviction does not keep the entry:
\* evict_cache_entries erases the same entries whatever the outcomes of its
\* writes, an evicted name is out of the table when the critical section
\* ends, and a PinFiles call returns or waits, with the same table, as it
\* does when every write succeeds.
C17_FlushFailureDoesNotBlock ==
    /\ \A n \in last_evicted : n \notin DOMAIN file_cache_
    /\ DirtyVictims # {} =>
          /\ \A num \in 1..max_cache_entries_ :
                \A wo \in [DirtyVictims -> WriteOutcomes \X WriteOutcomes] :
                   LET e == evict_cache_entries(CacheState, num, wo)
                       ok == evict_cache_entries(CacheState, num,
                                                 [n \in DirtyVictims |-> <<"ok", "ok">>])
                   IN /\ e.s.fc = ok.s.fc
                      /\ e.evicted = ok.evicted
                      /\ Cardinality(DOMAIN e.s.fc) =
                            Cardinality(DOMAIN file_cache_) - Cardinality(e.evicted)
          /\ \A t \in Clients :
                (alive /\ pc[t] = "idle") =>
                   \A vec \in Callable(t) :
                      \A x \in FirstSections(vec, {"ok"}, WriteOutcomes) :
                         \A y \in FirstSections(vec, {"ok"}, {"ok"}) :
                            /\ x.r.status = y.r.status
                            /\ x.r.s.fc = y.r.s.fc
                            /\ x.r.evicted = y.r.evicted

\* A PinFiles call has evicted a dirty entry whose write-back failed, and
\* has loaded and pinned another name in its place.
C17_Witness ==
    \E n \in last_evicted :
       /\ flush_lost[n]
       /\ n \notin DOMAIN file_cache_
       /\ Cardinality(DOMAIN file_cache_) = max_cache_entries_
       /\ \E t \in Clients : pc[t] = "idle" /\ \E m \in DOMAIN file_cache_ \ {n} :
             held[t][m] = 1 /\ file_cache_[m].pin_count_ = 1 /\ ~file_cache_[m].dirty_

\* C19: while a PinFiles call is suspended in cv_.wait the table holds
\* exactly max_cache_entries entries.
C19_FullTableWhileWaiting ==
    \A t \in Clients :
       pc[t] = "wait" => Cardinality(DOMAIN file_cache_) = max_cache_entries_

\* C20: a PinFiles call that returns raises the pin_count of a name that was
\* resident by as much as the same call gives the name on an empty cache,
\* where it has to be loaded.
C20_PinIncreaseIgnoresResidency ==
    \A t \in Clients :
       (pc[t] = "idle" /\ prog[t] = 0) =>
          \A vec \in {v \in DupVecs : ~TooManyFiles(v)} :
             LET cold == PinFilesBody([fc |-> EmptyCache, st |-> storage,
                                       fds |-> [n \in Names |-> 0]], vec,
                                      [n \in Range(vec) |-> "ok"], <<>>)
             IN \A x \in FirstSections(vec, {"ok"}, {"ok"}) :
                   x.r.status = "return" =>
                      \A n \in Range(vec) \cap DOMAIN file_cache_ :
                         (x.r.s.fc[n].pin_count_ - file_cache_[n].pin_count_)
                            % (2 ^ PinCountBits) = cold.s.fc[n].pin_count_

\* C18: while the names that some caller holds pinned or that a PinFiles
\* call in progress asks for are at most max_cache_entries, which is so at
\* every moment with responsible clients, no PinFiles call is suspended in
\* cv_.wait.
C18_NoSuspendWithinCapacity ==
    Cardinality(InUse(prog)) <= max_cache_entries_
    => \A t \in Clients : pc[t] # "wait"

====
